---- MODULE Spec2Model ----
(***************************************************************************)
(* Model of the snake arena server (src/server.js): the participant table, *)
(* the food list and the handlers join, input, disconnect and tick.        *)
(* Each handler runs to completion on the single JavaScript thread, so     *)
(* each is one atomic action.  Math.random is a nondeterministic choice.   *)
(* Presentation-only fields (name, color, socket, timestamps) are left out.*)
(***************************************************************************)
EXTENDS Integers, Sequences, FiniteSets, TLC

\* Grid and food target are scaled down from the program's 40 x 30 / 5.  The
\* arena is 4 x 3; the crowded worlds, which hold four snakes around one
\* cell, need 6 x 5.  Each specification fixes the grid in its initial state.
ArenaCols == 4
ArenaRows == 3
CrowdCols == 6
CrowdRows == 5
\* The never-ending game is played by one socket on a 4 x 2 grid.
LiveCols == 4
LiveRows == 2
LiveSocketCount == 1
\* A participant of the never-ending game respawns after at most this many
\* deaths (a disconnect and a new join start a new participant).
MaxDeaths == 1
FOOD_TARGET == 1
INITIAL_LENGTH == 4
MAX_SPAWN_ATTEMPTS == 120
\* Number of socket ids and of timer firings explored.
MaxSockets == 2
MaxTicks == 1

SocketIds == 1..MaxSockets
NULL == "null"
DirectionKeys == {"up", "right", "down", "left"}
\* Payload values of an 'input' message; "bogus" is a key DIRECTIONS lacks.
InputKeys == DirectionKeys \cup {"bogus"}

DIRECTIONS ==
  [k \in DirectionKeys |->
     CASE k = "up"    -> [x |-> 0,  y |-> -1]
       [] k = "right" -> [x |-> 1,  y |-> 0]
       [] k = "down"  -> [x |-> 0,  y |-> 1]
       [] k = "left"  -> [x |-> -1, y |-> 0]]

VARIABLES
  players,   \* Map socket.id -> player, as a sequence in insertion order
  foods,     \* array of food positions
  ticks,     \* number of timer firings so far
  last,      \* what the last handler did: its inputs, the state before it,
             \* the moves of a tick after each pass, the messages emitted
  grid,      \* the grid the server was built with: [cols, rows], never changes
  idle       \* socket id -> ticks the participant has lived through since it
             \* spawned or since handleInput last stored a direction for it

vars == <<players, foods, ticks, last, grid, idle>>

GRID_COLS == grid.cols
GRID_ROWS == grid.rows

\* ------------------------------------------------------------------------
\* helpers

Cell(x, y) == [x |-> x, y |-> y]

posKey(point) == <<point.x, point.y>>

InGrid(p) == p.x >= 0 /\ p.x < GRID_COLS /\ p.y >= 0 /\ p.y < GRID_ROWS

AllCells == {Cell(x, y) : x \in 0..(GRID_COLS - 1), y \in 0..(GRID_ROWS - 1)}

\* isOpposite with the sign of the x test wrong
isOpposite_wrongSign(a, b) ==
  /\ a # NULL
  /\ b # NULL
  /\ DIRECTIONS[a].x - DIRECTIONS[b].x = 0
  /\ DIRECTIONS[a].y + DIRECTIONS[b].y = 0

isOpposite(a, b) ==
  /\ a # NULL
  /\ b # NULL
  /\ DIRECTIONS[a].x + DIRECTIONS[b].x = 0
  /\ DIRECTIONS[a].y + DIRECTIONS[b].y = 0

Max(a, b) == IF a >= b THEN a ELSE b

\* index of the player with this socket id in the table, 0 when absent
IndexOf(ps, id) ==
  IF \E i \in 1..Len(ps) : ps[i].id = id
  THEN CHOOSE i \in 1..Len(ps) : ps[i].id = id
  ELSE 0

RemoveAt(s, i) == SubSeq(s, 1, i - 1) \o SubSeq(s, i + 1, Len(s))

\* getOccupiedSet without the food positions
getOccupiedSet_noFood(ps, fs) ==
  UNION {{posKey(ps[i].snake[j]) : j \in 1..Len(ps[i].snake)} :
           i \in {k \in 1..Len(ps) : ps[k].alive}}

\* cells held by alive bodies or food, as position keys
getOccupiedSet(ps, fs) ==
  UNION {{posKey(ps[i].snake[j]) : j \in 1..Len(ps[i].snake)} :
           i \in {k \in 1..Len(ps) : ps[k].alive}}
  \cup {posKey(fs[i]) : i \in 1..Len(fs)}

FreeOf(occupied) == {c \in AllCells : posKey(c) \notin occupied}

FreeCells(ps, fs) == FreeOf(getOccupiedSet(ps, fs))

\* ------------------------------------------------------------------------
\* food

\* spawnFood draws GRID_COLS * GRID_ROWS random cells and returns the first
\* free one: the result is any free cell <<c>>, or null (<<>>) when every
\* draw lands on an occupied cell, which needs an occupied cell to exist.
spawnFoodIn(occupied) ==
  {<<c>> : c \in FreeOf(occupied)}
  \cup (IF \E c \in AllCells : posKey(c) \in occupied THEN {<<>>} ELSE {})

spawnFood(ps, fs) == spawnFoodIn(getOccupiedSet(ps, fs))

\* every food array ensureFood can leave behind
RECURSIVE ensureFood(_, _)
ensureFood(ps, fs) ==
  IF Len(fs) >= FOOD_TARGET
  THEN {fs}
  ELSE UNION {IF food = <<>> THEN {fs} ELSE ensureFood(ps, fs \o food) :
                food \in spawnFood(ps, fs)}

\* ------------------------------------------------------------------------
\* participants

createPlayer(id) ==
  [id |-> id, alive |-> FALSE, snake |-> <<>>, direction |-> NULL,
   pendingDirection |-> NULL, score |-> 0, best |-> INITIAL_LENGTH,
   deaths |-> 0]

\* the body laid out ahead of the head instead of behind it
Placement_forward(directionKey, head) ==
  [i \in 1..INITIAL_LENGTH |->
     Cell(head.x + DIRECTIONS[directionKey].x * (i - 1),
          head.y + DIRECTIONS[directionKey].y * (i - 1))]

\* the cells spawnPlayer lays out for a drawn direction and head
Placement(directionKey, head) ==
  [i \in 1..INITIAL_LENGTH |->
     Cell(head.x - DIRECTIONS[directionKey].x * (i - 1),
          head.y - DIRECTIONS[directionKey].y * (i - 1))]

PlacementValid(occupied, directionKey, head) ==
  \A i \in 1..INITIAL_LENGTH :
     /\ InGrid(Placement(directionKey, head)[i])
     /\ posKey(Placement(directionKey, head)[i]) \notin occupied

\* every outcome of spawnPlayer: the player spawned at a valid draw, or the
\* player untouched (ok = FALSE) when all draws were invalid ones
spawnPlayerIn(player, occupied) ==
  LET draws == DirectionKeys \X AllCells
  IN  {[ok |-> TRUE,
        player |-> [player EXCEPT !.snake = Placement(d[1], d[2]),
                                  !.direction = d[1],
                                  !.pendingDirection = d[1],
                                  !.alive = TRUE,
                                  !.score = 0]] :
         d \in {e \in draws : PlacementValid(occupied, e[1], e[2])}}
      \cup (IF MAX_SPAWN_ATTEMPTS >= 1
               /\ \E e \in draws : ~PlacementValid(occupied, e[1], e[2])
            THEN {[ok |-> FALSE, player |-> player]} ELSE {})

spawnPlayer(player, ps, fs) == spawnPlayerIn(player, getOccupiedSet(ps, fs))

Event(type, to, arg) == [type |-> type, to |-> to, arg |-> arg]

\* killPlayer that forgets to count the death
killPlayer_noDeathCount(player, reason) ==
  IF ~player.alive
  THEN [player |-> player, emitted |-> <<>>]
  ELSE [player |-> [player EXCEPT !.alive = FALSE, !.snake = <<>>,
                                  !.direction = NULL,
                                  !.pendingDirection = NULL,
                                  !.score = 0],
        emitted |-> <<Event("killed", player.id, reason),
                      Event("announcement", 0, reason)>>]

\* killPlayer: the player afterwards and the messages emitted
killPlayer(player, reason) ==
  IF ~player.alive
  THEN [player |-> player, emitted |-> <<>>]
  ELSE [player |-> [player EXCEPT !.alive = FALSE, !.snake = <<>>,
                                  !.direction = NULL,
                                  !.pendingDirection = NULL,
                                  !.score = 0, !.deaths = @ + 1],
        emitted |-> <<Event("killed", player.id, reason),
                      Event("announcement", 0, reason)>>]

\* ------------------------------------------------------------------------
\* tick

chooseDirection(player) ==
  IF player.pendingDirection = NULL
  THEN (IF player.direction # NULL THEN player.direction ELSE "right")
  ELSE IF player.direction = NULL
  THEN player.pendingDirection
  ELSE IF isOpposite(player.direction, player.pendingDirection)
  THEN player.direction
  ELSE player.pendingDirection

createMove(player, fs) ==
  LET direction == chooseDirection(player)
      head == player.snake[1]
      nextHead == Cell(head.x + DIRECTIONS[direction].x,
                       head.y + DIRECTIONS[direction].y)
  IN  [id |-> player.id, direction |-> direction, nextHead |-> nextHead,
       willEat |-> \E i \in 1..Len(fs) : fs[i] = nextHead,
       dead |-> FALSE, reason |-> NULL]

\* the moves of the alive players, in the table's iteration order
RECURSIVE LiveMoves(_, _)
LiveMoves(ps, fs) ==
  IF ps = <<>> THEN <<>>
  ELSE (IF Head(ps).alive THEN <<createMove(Head(ps), fs)>> ELSE <<>>)
       \o LiveMoves(Tail(ps), fs)

\* Map from position key to the segment there; a later set() overwrites an
\* earlier one, so the entry is the last segment in iteration order.
buildBodyOccupancy(ps) ==
  LET entries == {e \in (1..Len(ps)) \X (1..(GRID_COLS * GRID_ROWS + 1)) :
                    ps[e[1]].alive /\ e[2] <= Len(ps[e[1]].snake)}
      at(key) == {e \in entries : posKey(ps[e[1]].snake[e[2]]) = key}
      lastOf(es) == CHOOSE e \in es : \A f \in es :
                      f[1] < e[1] \/ (f[1] = e[1] /\ f[2] <= e[2])
  IN  [key \in {posKey(ps[e[1]].snake[e[2]]) : e \in entries} |->
         [playerId |-> ps[lastOf(at(key))[1]].id,
          index |-> lastOf(at(key))[2] - 1]]

MoveById(moves, id) == moves[CHOOSE i \in 1..Len(moves) : moves[i].id = id]

\* the wall pass with > for >= in the upper bounds
WallPass_offByOne(moves) ==
  [i \in 1..Len(moves) |->
     IF /\ ~moves[i].dead
        /\ \/ moves[i].nextHead.x < 0 \/ moves[i].nextHead.x > GRID_COLS
           \/ moves[i].nextHead.y < 0 \/ moves[i].nextHead.y > GRID_ROWS
     THEN [moves[i] EXCEPT !.dead = TRUE, !.reason = "wall"]
     ELSE moves[i]]

WallPass(moves) ==
  [i \in 1..Len(moves) |->
     IF ~moves[i].dead /\ ~InGrid(moves[i].nextHead)
     THEN [moves[i] EXCEPT !.dead = TRUE, !.reason = "wall"]
     ELSE moves[i]]

\* the body pass treating the tail of an eating snake as vacating
BodyCheck_ignoresEating(moves, ps, bodyOccupancy, i) ==
  LET move == moves[i]
      key == posKey(move.nextHead)
  IN  IF move.dead \/ key \notin DOMAIN bodyOccupancy THEN move
      ELSE LET occupant == bodyOccupancy[key]
               occupantPlayer == ps[IndexOf(ps, occupant.playerId)]
               occupantMove == MoveById(moves, occupant.playerId)
               isTail == occupant.index = Len(occupantPlayer.snake) - 1
               occupantWillVacate == ~occupantMove.dead /\ isTail
           IN  IF occupantWillVacate THEN move
               ELSE [move EXCEPT !.dead = TRUE, !.reason = "body"]

\* the body pass letting a move through only behind another player's tail
BodyCheck_ownTailBlocked(moves, ps, bodyOccupancy, i) ==
  LET move == moves[i]
      key == posKey(move.nextHead)
  IN  IF move.dead \/ key \notin DOMAIN bodyOccupancy THEN move
      ELSE LET occupant == bodyOccupancy[key]
               occupantPlayer == ps[IndexOf(ps, occupant.playerId)]
               occupantMove == MoveById(moves, occupant.playerId)
               isTail == occupant.index = Len(occupantPlayer.snake) - 1
               occupantWillVacate ==
                 ~occupantMove.dead /\ ~occupantMove.willEat /\ isTail
           IN  IF occupant.playerId # move.id /\ occupantWillVacate THEN move
               ELSE [move EXCEPT !.dead = TRUE, !.reason = "body"]

\* the body pass's decision for move i, given the moves as marked so far
BodyCheck(moves, ps, bodyOccupancy, i) ==
  LET move == moves[i]
      key == posKey(move.nextHead)
  IN  IF move.dead \/ key \notin DOMAIN bodyOccupancy THEN move
      ELSE LET occupant == bodyOccupancy[key]
               occupantPlayer == ps[IndexOf(ps, occupant.playerId)]
               occupantMove == MoveById(moves, occupant.playerId)
               isTail == occupant.index = Len(occupantPlayer.snake) - 1
               occupantWillVacate ==
                 ~occupantMove.dead /\ ~occupantMove.willEat /\ isTail
           IN  IF occupantWillVacate THEN move
               ELSE [move EXCEPT !.dead = TRUE, !.reason = "body"]

RECURSIVE BodyPassFrom(_, _, _, _)
BodyPassFrom(moves, ps, bodyOccupancy, i) ==
  IF i > Len(moves) THEN moves
  ELSE BodyPassFrom([moves EXCEPT ![i] = BodyCheck(moves, ps, bodyOccupancy, i)],
                    ps, bodyOccupancy, i + 1)

BodyPass(moves, ps) == BodyPassFrom(moves, ps, buildBodyOccupancy(ps), 1)

\* number of still-alive moves claiming a cell
headOccupancy(moves, key) ==
  Cardinality({i \in 1..Len(moves) :
                 ~moves[i].dead /\ posKey(moves[i].nextHead) = key})

\* the head pass with count < 3 for count < 2
HeadPass_needsThree(moves) ==
  [i \in 1..Len(moves) |->
     IF headOccupancy(moves, posKey(moves[i].nextHead)) >= 3
     THEN [moves[i] EXCEPT !.dead = TRUE, !.reason = "head"]
     ELSE moves[i]]

HeadPass(moves) ==
  [i \in 1..Len(moves) |->
     IF headOccupancy(moves, posKey(moves[i].nextHead)) >= 2
     THEN [moves[i] EXCEPT !.dead = TRUE, !.reason = "head"]
     ELSE moves[i]]

FoodIndex(fs, cell) ==
  IF \E i \in 1..Len(fs) : fs[i] = cell
  THEN CHOOSE i \in 1..Len(fs) : fs[i] = cell /\ \A j \in 1..(i - 1) : fs[j] # cell
  ELSE 0

\* Advance without the tail drop
Advance_keepsTail(player, move) ==
  LET grown == <<move.nextHead>> \o player.snake
  IN  [player EXCEPT !.direction = move.direction,
                     !.pendingDirection = move.direction,
                     !.snake = grown,
                     !.score = IF move.willEat THEN @ + 1 ELSE @,
                     !.best = IF move.willEat THEN Max(@, Len(grown)) ELSE @]

\* Advance without the score increment
Advance_noScore(player, move) ==
  LET grown == <<move.nextHead>> \o player.snake
  IN  IF move.willEat
      THEN [player EXCEPT !.direction = move.direction,
                          !.pendingDirection = move.direction,
                          !.snake = grown,
                          !.best = Max(@, Len(grown))]
      ELSE [player EXCEPT !.direction = move.direction,
                          !.pendingDirection = move.direction,
                          !.snake = SubSeq(grown, 1, Len(grown) - 1)]

\* Advance dropping the tail also when the move eats
Advance_dropsTailOnEat(player, move) ==
  LET grown == <<move.nextHead>> \o player.snake
  IN  [player EXCEPT !.direction = move.direction,
                     !.pendingDirection = move.direction,
                     !.snake = SubSeq(grown, 1, Len(grown) - 1),
                     !.score = IF move.willEat THEN @ + 1 ELSE @,
                     !.best = IF move.willEat THEN Max(@, Len(grown)) ELSE @]

\* a surviving move applied to its player
Advance(player, move) ==
  LET grown == <<move.nextHead>> \o player.snake
  IN  IF move.willEat
      THEN [player EXCEPT !.direction = move.direction,
                          !.pendingDirection = move.direction,
                          !.snake = grown,
                          !.score = @ + 1,
                          !.best = Max(@, Len(grown))]
      ELSE [player EXCEPT !.direction = move.direction,
                          !.pendingDirection = move.direction,
                          !.snake = SubSeq(grown, 1, Len(grown) - 1)]

\* the last forEach of tick, from move i on: players, foods and the messages
RECURSIVE Commit(_, _, _, _, _)
Commit(moves, i, ps, fs, emitted) ==
  IF i > Len(moves)
  THEN [players |-> ps, foods |-> fs, emitted |-> emitted]
  ELSE LET move == moves[i]
           k == IndexOf(ps, move.id)
       IN  IF move.dead
           THEN LET killed == killPlayer(ps[k], IF move.reason # NULL
                                                THEN move.reason
                                                ELSE "collision")
                IN  Commit(moves, i + 1, [ps EXCEPT ![k] = killed.player],
                           fs, emitted \o killed.emitted)
           ELSE Commit(moves, i + 1,
                       [ps EXCEPT ![k] = Advance(ps[k], move)],
                       IF move.willEat /\ FoodIndex(fs, move.nextHead) # 0
                       THEN RemoveAt(fs, FoodIndex(fs, move.nextHead))
                       ELSE fs,
                       emitted)

\* ------------------------------------------------------------------------
\* handlers

\* The record kept of a handler's run.  A tick records the table and the
\* foods it started from, the foods after its first top-up and the moves after
\* each pass; the other handlers record their inputs and messages only.
\* what a 'state' message carries (name and colour are not modelled)
buildPublicState(ps, fs) ==
  [food |-> fs,
   players |-> [i \in 1..Len(ps) |->
                  [id |-> ps[i].id, alive |-> ps[i].alive,
                   snake |-> ps[i].snake, score |-> ps[i].score,
                   best |-> ps[i].best, deaths |-> ps[i].deaths]]]

Ran(op, id, key, emitted) ==
  [op |-> op, id |-> id, key |-> key, players |-> <<>>, foods |-> <<>>,
   tickFoods |-> <<>>, afterWall |-> <<>>, afterBody |-> <<>>,
   liveMoves |-> <<>>, snapshot |-> buildPublicState(<<>>, <<>>),
   idle |-> <<>>, emitted |-> emitted]

RanTick(tickFoods, afterWall, afterBody, liveMoves, snapshot, emitted) ==
  [op |-> "tick", id |-> 0, key |-> NULL, players |-> players,
   foods |-> foods, tickFoods |-> tickFoods, afterWall |-> afterWall,
   afterBody |-> afterBody, liveMoves |-> liveMoves, snapshot |-> snapshot,
   idle |-> idle, emitted |-> emitted]

\* the socket ids in the table
Ids(ps) == {ps[i].id : i \in 1..Len(ps)}

IsAlive(ps, id) == IndexOf(ps, id) # 0 /\ ps[IndexOf(ps, id)].alive

\* no participant of the table has lived through a tick yet
Fresh(ps) == [id \in Ids(ps) |-> 0]

\* idle after a message handler: back to 0 for the sockets in reset
Carry(ps, reset) ==
  [id \in Ids(ps) |->
     IF id \in reset \/ id \notin DOMAIN idle THEN 0 ELSE idle[id]]

\* the longest straight run the grid allows
MaxRun == Max(GRID_COLS, GRID_ROWS)

\* idle after a tick: one more for a participant that was alive and still is
TickIdle ==
  [id \in Ids(players') |->
     IF IsAlive(players, id) /\ IsAlive(players', id)
     THEN (IF idle[id] > MaxRun THEN idle[id] ELSE idle[id] + 1)
     ELSE 0]

Init ==
  /\ grid = [cols |-> ArenaCols, rows |-> ArenaRows]
  /\ idle = Fresh(<<>>)
  /\ players = <<>>
  /\ foods \in ensureFood(<<>>, <<>>)
  /\ ticks = 0
  /\ last = Ran("init", 0, NULL, <<>>)

\* handleJoin that sets best to the new length instead of the maximum
handleJoin_resetsBest(id) ==
  LET known == IndexOf(players, id) # 0
      table == IF known THEN players ELSE Append(players, createPlayer(id))
      k == IndexOf(table, id)
      player == table[k]
  IN  IF player.alive
      THEN /\ players' = table
           /\ last' = Ran("join", id, NULL, <<Event("joinAcknowledged", id, "")>>)
      ELSE \E spawned \in spawnPlayer(player, table, foods) :
             IF ~spawned.ok
             THEN /\ players' = table
                  /\ last' = Ran("join", id, NULL, <<Event("joinError", id, "")>>)
             ELSE /\ players' =
                       [table EXCEPT ![k] =
                          [spawned.player EXCEPT
                             !.score = 0,
                             !.best = Len(spawned.player.snake)]]
                  /\ last' = Ran("join", id, NULL, <<Event("joinAcknowledged", id, ""),
                                   Event("announcement", 0, "joined")>>)

\* handleJoin whose failure branch does not return
handleJoin_noReturn(id) ==
  LET known == IndexOf(players, id) # 0
      table == IF known THEN players ELSE Append(players, createPlayer(id))
      k == IndexOf(table, id)
      player == table[k]
  IN  IF player.alive
      THEN /\ players' = table
           /\ last' = Ran("join", id, NULL, <<Event("joinAcknowledged", id, "")>>)
      ELSE \E spawned \in spawnPlayer(player, table, foods) :
             /\ players' =
                  [table EXCEPT ![k] =
                     [spawned.player EXCEPT
                        !.score = 0,
                        !.best = Max(@, Len(spawned.player.snake))]]
             /\ last' = Ran("join", id, NULL,
                            (IF spawned.ok THEN <<>>
                             ELSE <<Event("joinError", id, "")>>)
                            \o <<Event("joinAcknowledged", id, ""),
                                 Event("announcement", 0, "joined")>>)

handleJoin(id) ==
  LET known == IndexOf(players, id) # 0
      table == IF known THEN players ELSE Append(players, createPlayer(id))
      k == IndexOf(table, id)
      player == table[k]
  IN  IF player.alive
      THEN /\ players' = table
           /\ last' = Ran("join", id, NULL, <<Event("joinAcknowledged", id, "")>>)
      ELSE \E spawned \in spawnPlayer(player, table, foods) :
             IF ~spawned.ok
             THEN /\ players' = table
                  /\ last' = Ran("join", id, NULL, <<Event("joinError", id, "")>>)
             ELSE /\ players' =
                       [table EXCEPT ![k] =
                          [spawned.player EXCEPT
                             !.score = 0,
                             !.best = Max(@, Len(spawned.player.snake))]]
                  /\ last' = Ran("join", id, NULL, <<Event("joinAcknowledged", id, ""),
                                   Event("announcement", 0, "joined")>>)

Join(id) ==
  /\ handleJoin(id)
  /\ idle' = Carry(players', IF IsAlive(players, id) THEN {} ELSE {id})
  /\ UNCHANGED <<foods, ticks, grid>>

\* handleInput without the test for the opposite direction
handleInput_allowsReverse(id, directionKey) ==
  LET k == IndexOf(players, id)
  IN  IF k = 0 \/ ~players[k].alive
      THEN players' = players
      ELSE IF directionKey \notin DOMAIN DIRECTIONS
      THEN players' = players
      ELSE players' = [players EXCEPT ![k].pendingDirection = directionKey]

handleInput(id, directionKey) ==
  LET k == IndexOf(players, id)
  IN  IF k = 0 \/ ~players[k].alive
      THEN players' = players
      ELSE IF directionKey \notin DOMAIN DIRECTIONS
      THEN players' = players
      ELSE IF players[k].direction # NULL
              /\ isOpposite(players[k].direction, directionKey)
      THEN players' = players
      ELSE players' = [players EXCEPT ![k].pendingDirection = directionKey]

\* handleInput reaches its last two statements (pendingDirection, lastInputAt)
Stored(id, directionKey) ==
  /\ IsAlive(players, id)
  /\ directionKey \in DOMAIN DIRECTIONS
  /\ ~(players[IndexOf(players, id)].direction # NULL
        /\ isOpposite(players[IndexOf(players, id)].direction, directionKey))

Input(id, directionKey) ==
  /\ handleInput(id, directionKey)
  /\ last' = Ran("input", id, directionKey, <<>>)
  /\ idle' = Carry(players', IF Stored(id, directionKey) THEN {id} ELSE {})
  /\ UNCHANGED <<foods, ticks, grid>>

Disconnect(id) ==
  LET k == IndexOf(players, id)
  IN  /\ IF k # 0
         THEN /\ players' = RemoveAt(players, k)
              /\ last' = Ran("disconnect", id, NULL, <<Event("announcement", 0, "left")>>)
         ELSE /\ players' = players
              /\ last' = Ran("disconnect", id, NULL, <<>>)
      /\ idle' = Carry(players', {})
      /\ UNCHANGED <<foods, ticks, grid>>

\* (a value computed once and used again is bound by \E over a singleton)
\* tick that builds its snapshot before the final food top-up
tick_broadcastsEarly ==
  \E tickFoods \in ensureFood(players, foods) :
  \E liveMoves \in {LiveMoves(players, tickFoods)} :
    IF Len(liveMoves) = 0
    THEN /\ players' = players
         /\ foods' = tickFoods
         /\ last' = RanTick(tickFoods, <<>>, <<>>, <<>>,
                            buildPublicState(players, tickFoods),
                            <<Event("state", 0, "")>>)
    ELSE \E afterWall \in {WallPass(liveMoves)} :
         \E afterBody \in {BodyPass(afterWall, players)} :
         \E afterHead \in {HeadPass(afterBody)} :
         \E done \in {Commit(afterHead, 1, players, tickFoods, <<>>)} :
         \E refilled \in ensureFood(done.players, done.foods) :
           /\ players' = done.players
           /\ foods' = refilled
           /\ last' = RanTick(tickFoods, afterWall, afterBody, afterHead,
                              buildPublicState(done.players, done.foods),
                              done.emitted \o <<Event("state", 0, "")>>)

tick ==
  \E tickFoods \in ensureFood(players, foods) :
  \E liveMoves \in {LiveMoves(players, tickFoods)} :
    IF Len(liveMoves) = 0
    THEN /\ players' = players
         /\ foods' = tickFoods
         /\ last' = RanTick(tickFoods, <<>>, <<>>, <<>>,
                            buildPublicState(players, tickFoods),
                            <<Event("state", 0, "")>>)
    ELSE \E afterWall \in {WallPass(liveMoves)} :
         \E afterBody \in {BodyPass(afterWall, players)} :
         \E afterHead \in {HeadPass(afterBody)} :
         \E done \in {Commit(afterHead, 1, players, tickFoods, <<>>)} :
         \E refilled \in ensureFood(done.players, done.foods) :
           /\ players' = done.players
           /\ foods' = refilled
           /\ last' = RanTick(tickFoods, afterWall, afterBody, afterHead,
                              buildPublicState(done.players, refilled),
                              done.emitted \o <<Event("state", 0, "")>>)

Tick ==
  /\ ticks < MaxTicks
  /\ tick
  /\ idle' = TickIdle
  /\ ticks' = ticks + 1
  /\ UNCHANGED grid

\* Exploration goes up to and including the MaxTicks-th timer firing.
Next ==
  /\ ticks < MaxTicks
  /\ \/ \E id \in SocketIds : Join(id)
     \/ \E id \in SocketIds, directionKey \in InputKeys : Input(id, directionKey)
     \/ \E id \in SocketIds : Disconnect(id)
     \/ Tick

Spec == Init /\ [][Next]_vars

\* ------------------------------------------------------------------------
\* Worlds some ticks into a game, from which the cases that need a bent or a
\* grown snake are one tick away.  Each is reached from Init as described.

Alive(id, snake, direction, score) ==
  [id |-> id, alive |-> TRUE, snake |-> snake, direction |-> direction,
   pendingDirection |-> direction, score |-> score,
   best |-> Len(snake), deaths |-> 0]

\* Player 1 spawned on row 0 facing right with its head at (3,0), then turned
\* down and left: two ticks, no food eaten.
CurlWorld ==
  /\ players = <<Alive(1, <<Cell(2, 1), Cell(3, 1), Cell(3, 0), Cell(2, 0)>>,
                       "left", 0)>>
  /\ foods = <<Cell(0, 2)>>

\* Player 1 spawned on row 0 facing right with its head at (3,0), turned down
\* into a food at (3,1) and then went left along row 1: four ticks, one food.
LongSnake ==
  Alive(1, <<Cell(0, 1), Cell(1, 1), Cell(2, 1), Cell(3, 1), Cell(3, 0)>>,
        "left", 1)

GrownWorld ==
  /\ players = <<LongSnake>>
  /\ foods = <<Cell(0, 0)>>

\* As GrownWorld, but player 2 joined first and ran into a wall on the first
\* tick, after which player 1 joined: player 2 precedes player 1 in the table.
GrownWorldSecond ==
  /\ players = <<[createPlayer(2) EXCEPT !.deaths = 1], LongSnake>>
  /\ foods = <<Cell(0, 0)>>

\* GrownWorld one tick later: player 1 kept going left, ran into the wall and
\* has not rejoined yet.
FallenWorld ==
  /\ players = <<[createPlayer(1) EXCEPT !.deaths = 1, !.best = 5]>>
  /\ foods = <<Cell(0, 0)>>

ArenaInit ==
  /\ grid = [cols |-> ArenaCols, rows |-> ArenaRows]
  /\ CurlWorld \/ GrownWorld \/ GrownWorldSecond \/ FallenWorld
  /\ idle = Fresh(players)
  /\ ticks = 0
  /\ last = Ran("init", 0, NULL, <<>>)

SpecArena == ArenaInit /\ [][Next]_vars

\* Sockets 3, 4 and 5 joined in this order and have moved once since:
\*   3 spawned on row 2 facing left with its head at (2,2) and turned down,
\*   4 spawned on row 4 facing left with its head at (2,4) and went on,
\*   5 spawned on column 1 facing up with its head at (1,1) and turned right.
\* Then socket 6 joined on column 0 facing down with its head at (0,3), and
\* all four have sent their next input.  The heads of 3, 4 and 6 surround
\* (1,3), the tail of 5, and aim at it; 5 aims at (2,2), a segment of 3.
\* Sockets 1 and 2 have not joined yet.
CrowdWorld ==
  /\ players =
       <<[Alive(3, <<Cell(2, 3), Cell(2, 2), Cell(3, 2), Cell(4, 2)>>, "down", 0)
            EXCEPT !.pendingDirection = "left"],
         [Alive(4, <<Cell(1, 4), Cell(2, 4), Cell(3, 4), Cell(4, 4)>>, "left", 0)
            EXCEPT !.pendingDirection = "up"],
         [Alive(5, <<Cell(2, 1), Cell(1, 1), Cell(1, 2), Cell(1, 3)>>, "right", 0)
            EXCEPT !.pendingDirection = "down"],
         [Alive(6, <<Cell(0, 3), Cell(0, 2), Cell(0, 1), Cell(0, 0)>>, "down", 0)
            EXCEPT !.pendingDirection = "right"]>>
  /\ foods = <<Cell(5, 0)>>

CrowdInit ==
  /\ grid = [cols |-> CrowdCols, rows |-> CrowdRows]
  /\ CrowdWorld
  /\ idle = Fresh(players)
  /\ ticks = 0
  /\ last = Ran("init", 0, NULL, <<>>)

SpecCrowd == CrowdInit /\ [][Next]_vars

\* ------------------------------------------------------------------------
\* the never-ending game: the timer of setInterval keeps firing

LiveSockets == 1..LiveSocketCount

DeathsOf(id) ==
  IF IndexOf(players, id) = 0 THEN 0 ELSE players[IndexOf(players, id)].deaths

\* a timer firing that is not counted in ticks
TickOn ==
  /\ tick
  /\ idle' = TickIdle
  /\ UNCHANGED <<ticks, grid>>

LiveInit ==
  /\ grid = [cols |-> LiveCols, rows |-> LiveRows]
  /\ idle = Fresh(<<>>)
  /\ players = <<>>
  /\ foods \in ensureFood(<<>>, <<>>)
  /\ ticks = 0
  /\ last = Ran("init", 0, NULL, <<>>)

LiveNext ==
  \/ \E id \in LiveSockets : DeathsOf(id) < MaxDeaths /\ Join(id)
  \/ \E id \in LiveSockets, directionKey \in InputKeys : Input(id, directionKey)
  \/ \E id \in LiveSockets : Disconnect(id)
  \/ TickOn

\* setInterval(tick, TICK_INTERVAL) fires for as long as the server runs
SpecLive == LiveInit /\ [][LiveNext]_vars /\ WF_vars(TickOn)

\* ------------------------------------------------------------------------
\* Properties

AlivePlayers == {i \in 1..Len(players) : players[i].alive}

\* the player of a move before the recorded tick, and the same player now
Before(id) == last.players[IndexOf(last.players, id)]
Now(id) == players[IndexOf(players, id)]

TailOf(player) == player.snake[Len(player.snake)]

Moves == 1..Len(last.liveMoves)

C2_SegmentsDistinct ==
  \A i \in AlivePlayers : \A j, k \in 1..Len(players[i].snake) :
     j # k => players[i].snake[j] # players[i].snake[k]

\* a tick in which a snake moved into the cell its own tail was leaving
C2_Witness ==
  /\ last.op = "tick"
  /\ \E m \in Moves :
        /\ ~last.liveMoves[m].dead
        /\ last.liveMoves[m].nextHead = TailOf(Before(last.liveMoves[m].id))
        /\ Now(last.liveMoves[m].id).snake[1] = last.liveMoves[m].nextHead

\* C3: each alive participant's body length equals its score plus
\* INITIAL_LENGTH, in every reachable state (so after every tick and join).
C3_LengthIsScorePlusInitial ==
  \A i \in AlivePlayers :
     Len(players[i].snake) = players[i].score + INITIAL_LENGTH

\* a tick after which a player that ate is alive with a positive score
C3_Witness ==
  /\ last.op = "tick"
  /\ \E m \in Moves :
        /\ ~last.liveMoves[m].dead
        /\ last.liveMoves[m].willEat
        /\ Now(last.liveMoves[m].id).score >= 1

\* two different moves that survived the wall and body passes and claim the
\* same cell
HeadOn(m, n) ==
  /\ m # n
  /\ ~last.afterBody[m].dead
  /\ ~last.afterBody[n].dead
  /\ last.afterBody[m].nextHead = last.afterBody[n].nextHead

\* C4: after a tick, every move that survived the wall and body passes and
\* shares its nextHead with another such move is dead with reason 'head', and
\* its participant is not alive and has an empty body.
C4_HeadOnKillsAll ==
  last.op = "tick" =>
    \A m, n \in Moves :
       HeadOn(m, n) =>
         /\ last.liveMoves[m].dead
         /\ last.liveMoves[m].reason = "head"
         /\ ~Now(last.liveMoves[m].id).alive
         /\ Now(last.liveMoves[m].id).snake = <<>>

C4_Witness ==
  /\ last.op = "tick"
  /\ \E m, n \in Moves : HeadOn(m, n)

\* move a survived the wall pass and targets the cell that is the tail of the
\* player of another move b
TailFollow(a, b) ==
  /\ a # b
  /\ ~last.afterWall[a].dead
  /\ last.afterWall[a].nextHead = TailOf(Before(last.afterWall[b].id))

\* C5: when A's planned head targets the tail cell of another alive
\* participant B, A survives the body pass if and only if B's move is alive
\* (after the body pass) and does not eat.
C5_TailFollowIff ==
  last.op = "tick" =>
    \A a, b \in Moves :
       TailFollow(a, b) =>
         (~last.afterBody[a].dead
            <=> (~last.afterBody[b].dead /\ ~last.afterBody[b].willEat))

\* the same with "B's move is alive" read as: B's move survived the wall pass
C5_TailFollowIffAfterWall ==
  last.op = "tick" =>
    \A a, b \in Moves :
       TailFollow(a, b) =>
         (~last.afterBody[a].dead
            <=> (~last.afterWall[b].dead /\ ~last.afterWall[b].willEat))

\* no other move that survived the body pass claims the cell of move m
Unclaimed(m) ==
  \A n \in Moves :
     n # m => \/ last.afterBody[n].dead
              \/ last.afterBody[n].nextHead # last.afterBody[m].nextHead

\* move m targets its own player's tail cell, inside the grid, without eating
OwnTailMove(m) ==
  /\ last.liveMoves[m].nextHead = TailOf(Before(last.liveMoves[m].id))
  /\ InGrid(last.liveMoves[m].nextHead)
  /\ ~last.liveMoves[m].willEat

\* C6: a participant whose planned head targets its own tail cell, in bounds,
\* not eating, the cell claimed by no other surviving move, survives the
\* tick with its head at the former tail cell and its length unchanged.
C6_OwnTailSurvives ==
  last.op = "tick" =>
    \A m \in Moves :
       (OwnTailMove(m) /\ Unclaimed(m)) =>
         /\ ~last.liveMoves[m].dead
         /\ Now(last.liveMoves[m].id).alive
         /\ Now(last.liveMoves[m].id).snake[1]
              = TailOf(Before(last.liveMoves[m].id))
         /\ Len(Now(last.liveMoves[m].id).snake)
              = Len(Before(last.liveMoves[m].id).snake)

C6_Witness ==
  /\ last.op = "tick"
  /\ \E m \in Moves :
        /\ OwnTailMove(m)
        /\ Unclaimed(m)
        /\ Now(last.liveMoves[m].id).alive
        /\ Len(Now(last.liveMoves[m].id).snake) = INITIAL_LENGTH

\* C7: for every move that survives a tick, the new body is nextHead followed
\* by the whole previous body when the move eats (length and score +1, the
\* previous tail still the tail), and nextHead followed by the previous body
\* without its last segment when it does not (length and score unchanged).
C7_GrowthLaw ==
  last.op = "tick" =>
    \A m \in Moves :
       ~last.liveMoves[m].dead =>
         LET move == last.liveMoves[m]
             old == Before(move.id)
             new == Now(move.id)
         IN  IF move.willEat
             THEN /\ new.snake = <<move.nextHead>> \o old.snake
                  /\ Len(new.snake) = Len(old.snake) + 1
                  /\ TailOf(new) = TailOf(old)
                  /\ new.score = old.score + 1
             ELSE /\ new.snake = <<move.nextHead>>
                                 \o SubSeq(old.snake, 1, Len(old.snake) - 1)
                  /\ Len(new.snake) = Len(old.snake)
                  /\ new.score = old.score

\* a tick in which one move ate and grew and another moved on without eating
C7_Witness ==
  /\ last.op = "tick"
  /\ \E m, n \in Moves :
        /\ ~last.liveMoves[m].dead /\ last.liveMoves[m].willEat
        /\ Len(Now(last.liveMoves[m].id).snake)
             = Len(Before(last.liveMoves[m].id).snake) + 1
        /\ ~last.liveMoves[n].dead /\ ~last.liveMoves[n].willEat

OppositeKey ==
  [k \in DirectionKeys |->
     CASE k = "up" -> "down" [] k = "down" -> "up"
       [] k = "left" -> "right" [] k = "right" -> "left"]

\* the cases in which SetDirection is to be ignored
Ignored(id, directionKey) ==
  \/ IndexOf(players, id) = 0
  \/ ~players[IndexOf(players, id)].alive
  \/ directionKey \notin DirectionKeys
  \/ players[IndexOf(players, id)].direction = OppositeKey[directionKey]

C9_NoReversal ==
  last.op = "tick" =>
    \A m \in Moves :
       /\ Before(last.liveMoves[m].id).direction # NULL
       /\ last.liveMoves[m].direction
            # OppositeKey[Before(last.liveMoves[m].id).direction]
       /\ last.liveMoves[m].nextHead # Before(last.liveMoves[m].id).snake[2]

\* a tick that committed a buffered turn
C9_Witness ==
  /\ last.op = "tick"
  /\ \E m \in Moves :
        /\ ~last.liveMoves[m].dead
        /\ last.liveMoves[m].direction
             # Before(last.liveMoves[m].id).direction
        /\ Now(last.liveMoves[m].id).direction = last.liveMoves[m].direction

\* C10: after every tick the number of foods equals FOOD_TARGET whenever a
\* grid cell is free of alive bodies and food.
C10_FoodAtTarget ==
  last.op = "tick" =>
    (Len(foods) = FOOD_TARGET \/ FreeCells(players, foods) = {})

Spawned(id) ==
  /\ last'.op = "join"
  /\ last'.id = id
  /\ IndexOf(players, id) # 0 => ~players[IndexOf(players, id)].alive
  /\ players'[IndexOf(players', id)].alive

\* cells held by an alive body or a food before the step
BusyCells ==
  UNION {{players[i].snake[j] : j \in 1..Len(players[i].snake)} :
           i \in AlivePlayers}
    \cup {foods[f] : f \in 1..Len(foods)}

\* C12: a successful spawn installs exactly INITIAL_LENGTH cells, starting at
\* the head and running in a straight line opposite to the facing, all in the
\* grid and none held by an alive body or a food at the moment of the join;
\* the participant is alive with score 0 and facing = pending facing = the
\* direction of the line.
C12_SpawnLaysStraightBody ==
  [][\A id \in SocketIds : Spawned(id) =>
       LET p == players'[IndexOf(players', id)]
       IN  /\ p.alive
           /\ p.score = 0
           /\ p.direction \in DirectionKeys
           /\ p.pendingDirection = p.direction
           /\ Len(p.snake) = INITIAL_LENGTH
           /\ \A i \in 1..Len(p.snake) :
                 /\ p.snake[i].x = p.snake[1].x - (i - 1) * DIRECTIONS[p.direction].x
                 /\ p.snake[i].y = p.snake[1].y - (i - 1) * DIRECTIONS[p.direction].y
                 /\ InGrid(p.snake[i])
                 /\ p.snake[i] \notin BusyCells]_vars

\* a participant has just spawned next to an alive one
C12_Witness ==
  /\ last.op = "join"
  /\ Len(last.emitted) = 2
  /\ Now(last.id).alive
  /\ Len(Now(last.id).snake) = INITIAL_LENGTH
  /\ \E i \in AlivePlayers : players[i].id # last.id

\* the step is a join of id that found no placement: not alive (or unknown)
\* before and not alive afterwards
FailedJoin(id) ==
  /\ last'.op = "join"
  /\ last'.id = id
  /\ IndexOf(players, id) # 0 => ~players[IndexOf(players, id)].alive
  /\ ~players'[IndexOf(players', id)].alive

\* the participant as the join found it: the table entry, or a fresh one
Joining(id) ==
  IF IndexOf(players, id) # 0 THEN players[IndexOf(players, id)]
  ELSE createPlayer(id)

\* C13: a join that finds no placement sends the requester a joinError and
\* nothing else (no joinAcknowledged, no announcement); the participant stays
\* not alive with an empty body and its score, best and deaths as they were;
\* every other participant and the foods are unchanged.
C13_FailedJoinChangesNothing ==
  [][\A id \in SocketIds : FailedJoin(id) =>
       /\ last'.emitted = <<Event("joinError", id, "")>>
       /\ players'[IndexOf(players', id)] = Joining(id)
       /\ Joining(id).snake = <<>>
       /\ \A i \in 1..Len(players) : players'[i] = players[i]
       /\ Len(players') = Len(players) + (IF IndexOf(players, id) = 0 THEN 1 ELSE 0)
       /\ foods' = foods]_vars

\* a join has just failed beside an alive participant
C13_Witness ==
  /\ last.op = "join"
  /\ last.emitted = <<Event("joinError", last.id, "")>>
  /\ ~Now(last.id).alive
  /\ Now(last.id).snake = <<>>
  /\ AlivePlayers # {}

\* positions of the 'state' messages among those a handler emitted
StateEvents == {e \in 1..Len(last.emitted) : last.emitted[e].type = "state"}

\* C14: every tick emits exactly one state snapshot, as the last thing it
\* emits, and the snapshot shows the arena as the tick leaves it: after every
\* commit, every kill (whose killed message precedes it) and the final food
\* top-up.
C14_OneSnapshotAtTickEnd ==
  last.op = "tick" =>
    /\ StateEvents = {Len(last.emitted)}
    /\ last.snapshot = buildPublicState(players, foods)

\* a tick in which one participant advanced, another was killed and the eaten
\* or missing food was topped up
C14_Witness ==
  /\ last.op = "tick"
  /\ \E e \in 1..Len(last.emitted) : last.emitted[e].type = "killed"
  /\ \E m \in Moves :
        /\ ~last.liveMoves[m].dead
        /\ last.liveMoves[m].willEat
        /\ Now(last.liveMoves[m].id).snake[1] = last.liveMoves[m].nextHead
  /\ Len(foods) >= 1
  /\ last.snapshot.food = foods

\* best is at least the body length and at least INITIAL_LENGTH
BestCoversLength ==
  \A i \in 1..Len(players) :
     /\ players[i].best >= Len(players[i].snake)
     /\ players[i].best >= INITIAL_LENGTH

\* a participant that is in the table before and after a step has not lost
\* any of its best
BestNotLowered ==
  \A i \in 1..Len(players) : \A j \in 1..Len(players') :
     players'[j].id = players[i].id => players'[j].best >= players[i].best

\* C15: while a participant exists its best never decreases, deaths and
\* respawns included, and in every state best is at least the current body
\* length and at least INITIAL_LENGTH.
C15_BestNeverDrops == []BestCoversLength /\ [][BestNotLowered]_vars

\* a participant that had grown and died has respawned: its best is above its
\* new length
C15_Witness ==
  /\ last.op = "join"
  /\ Now(last.id).alive
  /\ Now(last.id).deaths >= 1
  /\ Now(last.id).best > Len(Now(last.id).snake)

\* the orders in which n moves can be visited
Perms(n) == {f \in [1..n -> 1..n] : \A i, j \in 1..n : f[i] = f[j] => i = j}

Permuted(moves, f) == [i \in 1..Len(moves) |-> moves[f[i]]]

\* who is dead, and why
Outcome(moves) ==
  {<<moves[i].id, moves[i].dead, moves[i].reason>> : i \in 1..Len(moves)}

\* C16: the body pass gives the same dead moves with the same reasons in
\* whatever order it visits the moves of a tick.
C16_BodyPassOrderIndependent ==
  last.op = "tick" =>
    \A f \in Perms(Len(last.afterWall)) :
       Outcome(BodyPass(Permuted(last.afterWall, f), last.players))
         = Outcome(last.afterBody)

\* the moves m and n of the last tick aim at one cell, and a food lies there
SameFoodPair(m, n) ==
  /\ m # n
  /\ last.liveMoves[m].nextHead = last.liveMoves[n].nextHead
  /\ \E f \in 1..Len(last.tickFoods) :
        last.tickFoods[f] = last.liveMoves[m].nextHead

\* the participant of move m has grown by one cell and scored one point
Credited(m) ==
  /\ Now(last.liveMoves[m].id).alive
  /\ Len(Now(last.liveMoves[m].id).snake)
       = Len(Before(last.liveMoves[m].id).snake) + 1
  /\ Now(last.liveMoves[m].id).score = Before(last.liveMoves[m].id).score + 1

\* the participant of move m was killed head-on and got nothing
KilledHeadOn(m) ==
  /\ last.liveMoves[m].dead
  /\ last.liveMoves[m].reason = "head"
  /\ ~Now(last.liveMoves[m].id).alive
  /\ Now(last.liveMoves[m].id).snake = <<>>
  /\ Now(last.liveMoves[m].id).score = 0

\* C18 as stated: when two planned heads aim at the same food cell, both moves
\* are marked willEat, both participants grow by one and score one, and the
\* food entry is removed.
C18_BothCredited ==
  last.op = "tick" =>
    \A m, n \in Moves : SameFoodPair(m, n) =>
       /\ last.liveMoves[m].willEat /\ last.liveMoves[n].willEat
       /\ Credited(m) /\ Credited(n)
       /\ \A f \in 1..Len(foods) : foods[f] # last.liveMoves[m].nextHead

\* C18, amended: when two planned heads aim at the same food cell, both moves
\* are marked willEat, but the head pass kills both with reason 'head': neither
\* participant grows or scores, and the food stays where it is.
C18_BothKilledFoodStays ==
  last.op = "tick" =>
    \A m, n \in Moves : SameFoodPair(m, n) =>
       /\ last.liveMoves[m].willEat /\ last.liveMoves[n].willEat
       /\ KilledHeadOn(m) /\ KilledHeadOn(n)
       /\ Cardinality({f \in 1..Len(foods) :
                          foods[f] = last.liveMoves[m].nextHead}) = 1

\* two heads have just gone for the same food
C18_Witness ==
  /\ last.op = "tick"
  /\ \E m, n \in Moves : SameFoodPair(m, n)

\* the 'killed' messages the last handler sent to id
KilledEvents(id) ==
  {e \in 1..Len(last.emitted) :
     last.emitted[e].type = "killed" /\ last.emitted[e].to = id}

KillReasons == {"wall", "body", "head", "collision"}

\* C19: a participant whose move is dead when resolution ends finishes the
\* tick not alive, with an empty body, facing and pending facing cleared,
\* score 0, one more death, the same best, and exactly one killed message,
\* which carries the reason of its move; killing a participant that is not
\* alive changes nothing and emits nothing.
C19_KillLaw ==
  /\ last.op = "tick" =>
       \A m \in Moves : last.liveMoves[m].dead =>
          /\ ~Now(last.liveMoves[m].id).alive
          /\ Now(last.liveMoves[m].id).snake = <<>>
          /\ Now(last.liveMoves[m].id).direction = NULL
          /\ Now(last.liveMoves[m].id).pendingDirection = NULL
          /\ Now(last.liveMoves[m].id).score = 0
          /\ Now(last.liveMoves[m].id).deaths
               = Before(last.liveMoves[m].id).deaths + 1
          /\ Now(last.liveMoves[m].id).best = Before(last.liveMoves[m].id).best
          /\ Cardinality(KilledEvents(last.liveMoves[m].id)) = 1
          /\ \A e \in KilledEvents(last.liveMoves[m].id) :
                last.emitted[e].arg = last.liveMoves[m].reason
  /\ \A i \in 1..Len(players) : ~players[i].alive =>
       \A reason \in KillReasons :
          killPlayer(players[i], reason)
            = [player |-> players[i], emitted |-> <<>>]

\* a tick has killed a participant that had a score, while a participant that
\* was already dead sat in the table
C19_Witness ==
  /\ last.op = "tick"
  /\ \E m \in Moves :
        /\ last.liveMoves[m].dead
        /\ Before(last.liveMoves[m].id).score >= 1
        /\ Before(last.liveMoves[m].id).best > INITIAL_LENGTH
  /\ \E i \in 1..Len(last.players) : ~last.players[i].alive

\* C20: in every reachable state the bodies of two different alive
\* participants share no cell.
C20_BodiesDisjoint ==
  \A i, j \in AlivePlayers : i # j =>
     \A a \in 1..Len(players[i].snake) : \A b \in 1..Len(players[j].snake) :
        players[i].snake[a] # players[j].snake[b]

\* a head has just moved into the cell that was another snake's tail, and the
\* owner of that tail was killed later in the same tick
C20_Witness ==
  /\ last.op = "tick"
  /\ \E m, n \in Moves :
        /\ m < n
        /\ ~last.liveMoves[m].dead
        /\ last.liveMoves[n].dead
        /\ last.liveMoves[m].nextHead = TailOf(Before(last.liveMoves[n].id))
        /\ Now(last.liveMoves[m].id).alive
        /\ Now(last.liveMoves[m].id).snake[1] = last.liveMoves[m].nextHead

\* C17: a move marked dead by one pass is not reconsidered by a later one:
\* the reason a killed participant is told is the reason of the first pass
\* that marked its move ('wall' stays 'wall', 'body' stays 'body', neither
\* becomes 'head'), and a head-on cluster is made of moves the wall and body
\* passes let through only.
C17_FirstReasonKept ==
  last.op = "tick" =>
    \A m \in Moves :
       /\ last.afterWall[m].dead => last.liveMoves[m].reason = "wall"
       /\ last.afterBody[m].dead =>
             /\ last.liveMoves[m].reason = last.afterBody[m].reason
             /\ \A e \in KilledEvents(last.liveMoves[m].id) :
                   last.emitted[e].arg = last.afterBody[m].reason
       /\ last.liveMoves[m].reason = "head" =>
             Cardinality({n \in Moves :
                            /\ ~last.afterBody[n].dead
                            /\ last.afterBody[n].nextHead
                                 = last.liveMoves[m].nextHead}) >= 2

\* the part of C17 about the wall pass alone: a move killed by the wall pass
\* keeps the reason 'wall' and no head-on kill lands on its cell
C17_WallReasonKept ==
  last.op = "tick" =>
    \A m \in Moves : last.afterWall[m].dead =>
       /\ last.liveMoves[m].reason = "wall"
       /\ \A n \in Moves : last.liveMoves[n].reason = "head" =>
             last.liveMoves[n].nextHead # last.liveMoves[m].nextHead

\* the last handler was an input of id that handleInput stored
Steered(id) ==
  /\ last.op = "input"
  /\ last.id = id
  /\ last.key \in DirectionKeys
  /\ IsAlive(players, id)
  /\ ~isOpposite(Now(id).direction, last.key)

\* an alive participant has lived through fewer ticks since its last stored
\* input (or its spawn) than the longer side of the grid
QuietBound ==
  \A id \in DOMAIN idle : IsAlive(players, id) => idle[id] < MaxRun

\* C21: while the timer keeps firing, an alive participant whose socket sends
\* no further direction that handleInput stores is eventually not alive any
\* more, and it has lived through fewer than max(GRID_COLS, GRID_ROWS) ticks
\* since the last one: the tick with that number kills it at the latest.
C21_QuietSnakeDies ==
  /\ []QuietBound
  /\ \A id \in LiveSockets :
        IsAlive(players, id) ~> (~IsAlive(players, id) \/ Steered(id))

\* a participant has run into the wall on the last tick the bound allows
C21_Witness ==
  /\ last.op = "tick"
  /\ \E m \in Moves :
        /\ last.liveMoves[m].dead
        /\ last.liveMoves[m].reason = "wall"
        /\ last.idle[last.liveMoves[m].id] = MaxRun - 1
        /\ ~IsAlive(players, last.liveMoves[m].id)

====
